---- MODULE Spec2Model ----
(***************************************************************************)
(* Symbolic execution of the JUMPI opcode of etk-z-evm                     *)
(* (etk-z-evm/src/ops/jumpi.rs): the enumeration of the feasible outcomes  *)
(* of the instruction against an SMT solver (`outcomes`) and the commit of *)
(* one of them (`execute`).                                                *)
(*                                                                         *)
(* The solver is modelled semantically: a formula is satisfiable when one  *)
(* assignment of the symbolic constants (gas, condition, destination) over *)
(* a finite domain makes every assertion true.                             *)
(***************************************************************************)
EXTENDS Integers, Sequences, FiniteSets, TLC

VARIABLES program, execution, solver, phase, offered, stats, last, steps,
          error, inconclusive

vars ==
    <<program, execution, solver, phase, offered, stats, last, steps,
      error, inconclusive>>

(***************************************************************************)
(* Bounds of the model.                                                    *)
(***************************************************************************)
\* Largest value a symbolic 256-bit word takes in an assignment.
MaxWord == 3
\* Largest stack depth the harness builds before stepping.
MaxStack == 3
\* Largest number of committed outcomes on one path.
MaxSteps == 2

(***************************************************************************)
(* Program constants.                                                      *)
(***************************************************************************)
\* let gas_cost = Int::from_u64(evm.ctx, 10);
GasCost == 10
\* The destination the tests push that is no JUMPDEST of any test program.
NoJumpDest == 29

(***************************************************************************)
(* Terms: 256-bit words (BV) and the gas counter (Int).                    *)
(***************************************************************************)
\* BV::from_u64(ctx, n, 256)
Const(n) == [sym |-> "", val |-> n]

\* BV::fresh_const(ctx, name, 256)
Fresh(name) == [sym |-> name, val |-> 0]

\* Int::from_u64(ctx, n), and the symbolic gas counter of a Builder without set_gas
GasConst(n) == [sym |-> "", off |-> n]

GasFresh == [sym |-> "gas", off |-> 0]

NoWord == Const(0)

NoGas == GasConst(0)

\* The values of the gas counter an assignment takes: one on each side of the
\* cost of every instruction a path commits (the gas atoms compare gas - k * cost
\* with the cost, so they tell no other values apart).
GasValues == UNION {{k * GasCost - 1, k * GasCost} : k \in 1..MaxSteps}

\* The assignments the solver searches.
Models == [gas : GasValues, condition : 0..MaxWord, destination : 0..MaxWord]

EvalWord(w, m) == IF w.sym = "" THEN w.val ELSE m[w.sym]

EvalGas(g, m) == (IF g.sym = "" THEN 0 ELSE m.gas) + g.off

(***************************************************************************)
(* Formulas: a conjunction or a disjunction of literals.                   *)
(***************************************************************************)
Lit(atom, w, g, v) == [neg |-> FALSE, atom |-> atom, w |-> w, g |-> g, v |-> v]

\* lhs._eq(&BV::from_u64(ctx, n, 256))
WordEq(w, n) == [op |-> "and", lits |-> <<Lit("eq", w, NoGas, n)>>]

\* gas.ge(&Int::from_u64(ctx, n))
GasGe(g, n) == [op |-> "and", lits |-> <<Lit("ge", NoWord, g, n)>>]

\* atom.not()
Not(f) == [f EXCEPT !.lits = <<[f.lits[1] EXCEPT !.neg = ~@]>>]

RECURSIVE Flatten(_)
Flatten(fs) ==
    IF fs = <<>> THEN <<>> ELSE fs[1].lits \o Flatten(Tail(fs))

\* Bool::and(ctx, &[...]) over atoms and negated atoms
And(fs) == [op |-> "and", lits |-> Flatten(fs)]

\* Bool::or(ctx, &[...]) over atoms and negated atoms
Or(fs) == [op |-> "or", lits |-> Flatten(fs)]

HoldsLit(l, m) ==
    LET a == IF l.atom = "eq" THEN EvalWord(l.w, m) = l.v
             ELSE EvalGas(l.g, m) >= l.v
    IN  IF l.neg THEN ~a ELSE a

Holds(f, m) ==
    IF f.op = "and"
    THEN \A i \in 1..Len(f.lits) : HoldsLit(f.lits[i], m)
    ELSE \E i \in 1..Len(f.lits) : HoldsLit(f.lits[i], m)

(***************************************************************************)
(* The solver: a stack of assertions with scopes.                          *)
(***************************************************************************)
Satisfiable(fs) ==
    \E m \in Models : \A i \in 1..Len(fs) : Holds(fs[i], m)

\* A query the solver gives up on: one with a literal of a kind it cannot
\* decide (the kinds in `inconclusive`) over a symbolic constant.
Undecided(fs) ==
    \E i \in 1..Len(fs) : \E j \in 1..Len(fs[i].lits) :
        LET l == fs[i].lits[j]
        IN  /\ l.atom \in inconclusive
            /\ IF l.atom = "eq" THEN l.w.sym # "" ELSE l.g.sym # ""

\* solver.check_assumptions(&[...]): SatResult::Sat, Unsat or Unknown.
CheckAssumptions(s, assumptions) ==
    IF Undecided(s.assertions \o assumptions) THEN "Unknown"
    ELSE IF Satisfiable(s.assertions \o assumptions) THEN "Sat" ELSE "Unsat"

\* solver.check()
Check(s) == CheckAssumptions(s, <<>>)

\* solver.push()
SolverPush(s) == [s EXCEPT !.scopes = Append(@, Len(s.assertions))]

\* solver.assert(&f)
SolverAssert(s, f) == [s EXCEPT !.assertions = Append(@, f)]

\* The scope mark dropped, the assertions made inside the scope kept.
SolverPop_scopeOnly(s) ==
    [s EXCEPT !.scopes = SubSeq(s.scopes, 1, Len(s.scopes) - 1)]

\* solver.pop(1)
SolverPop(s) ==
    [assertions |-> SubSeq(s.assertions, 1, s.scopes[Len(s.scopes)]),
     scopes |-> SubSeq(s.scopes, 1, Len(s.scopes) - 1)]

(***************************************************************************)
(* The stack: the last element of the sequence is the top.                 *)
(***************************************************************************)
\* stack.push(w)
StackPush(stack, w) == Append(stack, w)

\* stack.peek(n): the n-th element below the top
StackPeek(stack, n) == stack[Len(stack) - n]

\* stack.pop(): the stack without its top
StackPop(stack) == SubSeq(stack, 1, Len(stack) - 1)

\* stack.peek(n) is None, so that the .unwrap() on it panics.
PeekFails(stack, n) == n >= Len(stack)

(***************************************************************************)
(* Outcomes.                                                               *)
(***************************************************************************)
Halt(h) == [kind |-> "Halt", what |-> h, offset |-> 0]

Jump(o) == [kind |-> "Run", what |-> "Jump", offset |-> o]

Advance == [kind |-> "Run", what |-> "Advance", offset |-> 0]

(***************************************************************************)
(* The jump-destination table: the offsets of the JUMPDEST instructions,   *)
(* in ascending order.                                                     *)
(***************************************************************************)
RECURSIVE DestinationsFrom(_, _)
DestinationsFrom(prog, i) ==
    IF i > Len(prog) THEN <<>>
    ELSE (IF prog[i] = "JumpDest" THEN <<i - 1>> ELSE <<>>)
         \o DestinationsFrom(prog, i + 1)

Destinations(prog) == DestinationsFrom(prog, 1)

(***************************************************************************)
(* JumpI::outcomes                                                         *)
(***************************************************************************)
\* The cost compared with gt in the place of ge.
covers_cost_gt(ex) == GasGe(ex.gas_remaining, GasCost + 1)

\* let covers_cost = execution.gas_remaining.ge(&gas_cost);
covers_cost(ex) == GasGe(ex.gas_remaining, GasCost)

\* let dest = execution.stack.peek(0).unwrap();
OperandDest(ex) == StackPeek(ex.stack, 0)

\* The condition peeked at the top of the stack, where the destination is.
OperandAdvance_top(ex) == WordEq(StackPeek(ex.stack, 0), 0)

\* let advance = execution.stack.peek(1).unwrap()._eq(&BV::from_u64(evm.ctx, 0, 256));
OperandAdvance(ex) == WordEq(StackPeek(ex.stack, 1), 0)

\* The scan with every offset of the table pushed, its query forgotten.
RECURSIVE ScanDestinations_unchecked(_, _, _)
ScanDestinations_unchecked(s, dest, dests) ==
    IF dests = <<>>
    THEN [outcomes |-> <<>>, possible_dests |-> <<>>, queries |-> 0]
    ELSE LET offset == Head(dests)
             rest == ScanDestinations_unchecked(s, dest, Tail(dests))
         IN  [outcomes |-> <<Jump(offset)>> \o rest.outcomes,
              possible_dests |-> <<Not(WordEq(dest, offset))>> \o rest.possible_dests,
              queries |-> rest.queries]

\* for (offset, _) in evm.constants.destinations() { ... }: the outcomes pushed,
\* the negations collected in possible_dests and the number of queries made.
RECURSIVE ScanDestinations(_, _, _)
ScanDestinations(s, dest, dests) ==
    IF dests = <<>>
    THEN [outcomes |-> <<>>, possible_dests |-> <<>>, queries |-> 0]
    ELSE LET offset == Head(dests)
             can_jump == WordEq(dest, offset)
             cannot_jump == Not(can_jump)
             hit == CheckAssumptions(s, <<can_jump>>) = "Sat"
             rest == ScanDestinations(s, dest, Tail(dests))
         IN  [outcomes |-> (IF hit THEN <<Jump(offset)>> ELSE <<>>) \o rest.outcomes,
              possible_dests |->
                  (IF hit THEN <<cannot_jump>> ELSE <<>>) \o rest.possible_dests,
              queries |-> 1 + rest.queries]

\* InvalidJumpDest pushed without the query of bad_jump.
BadJump_unchecked(s, possible_dests) == <<Halt("InvalidJumpDest")>>

\* let bad_jump = Bool::and(evm.ctx, &possible_dests_refs); and its query
BadJump(s, possible_dests) ==
    IF CheckAssumptions(s, <<And(possible_dests)>>) = "Sat"
    THEN <<Halt("InvalidJumpDest")>>
    ELSE <<>>

\* The scope closed only inside the branch of a feasible jump.
JumpScope_popInside(s, dest, advance, dests) ==
    LET assumed == SolverAssert(SolverPush(s), Not(advance))
        feasible == Check(assumed) = "Sat"
        scan == ScanDestinations(assumed, dest, dests)
    IN  [outcomes |->
             IF feasible
             THEN scan.outcomes \o BadJump(assumed, scan.possible_dests)
             ELSE <<>>,
         solver |-> IF feasible THEN SolverPop(assumed) ELSE assumed,
         queries |-> 1 + (IF feasible THEN scan.queries + 1 ELSE 0),
         pushes |-> 1,
         pops |-> IF feasible THEN 1 ELSE 0]

\* The scope between evm.solver.push() and evm.solver.pop(1).
JumpScope(s, dest, advance, dests) ==
    LET assumed == SolverAssert(SolverPush(s), Not(advance))
        feasible == Check(assumed) = "Sat"
        scan == ScanDestinations(assumed, dest, dests)
    IN  [outcomes |->
             IF feasible
             THEN scan.outcomes \o BadJump(assumed, scan.possible_dests)
             ELSE <<>>,
         solver |-> SolverPop(assumed),
         queries |-> 1 + (IF feasible THEN scan.queries + 1 ELSE 0),
         pushes |-> 1,
         pops |-> 1]

\* The out-of-gas query with the negation of covers_cost forgotten.
OutOfGasBranch_noNot(ex, s) ==
    IF CheckAssumptions(s, <<covers_cost(ex)>>) = "Sat"
    THEN <<Halt("OutOfGas")>>
    ELSE <<>>

\* if SatResult::Sat == evm.solver.check_assumptions(&[covers_cost.not()])
OutOfGasBranch(ex, s) ==
    IF CheckAssumptions(s, <<Not(covers_cost(ex))>>) = "Sat"
    THEN <<Halt("OutOfGas")>>
    ELSE <<>>

\* The fall-through offered without asking the solver.
AdvanceBranch_unchecked(s, advance) == <<Advance>>

\* if SatResult::Sat == evm.solver.check_assumptions(&[advance])
AdvanceBranch(s, advance) ==
    IF CheckAssumptions(s, <<advance>>) = "Sat" THEN <<Advance>> ELSE <<>>

\* The fall-through tested before evm.solver.pop(1), inside the jump scope.
CoveredBranch_inScope(ex, s, dests) ==
    LET scope == JumpScope(s, OperandDest(ex), OperandAdvance(ex), dests)
        assumed == SolverAssert(SolverPush(s), Not(OperandAdvance(ex)))
    IN  [outcomes |-> scope.outcomes \o AdvanceBranch(assumed, OperandAdvance(ex)),
         solver |-> scope.solver,
         queries |-> scope.queries + 1,
         pushes |-> scope.pushes,
         pops |-> scope.pops,
         panic |-> FALSE]

\* if SatResult::Sat == evm.solver.check_assumptions(&[covers_cost]) { ... }
CoveredBranch(ex, s, dests) ==
    IF PeekFails(ex.stack, 0) \/ PeekFails(ex.stack, 1)
    THEN [outcomes |-> <<>>, solver |-> s, queries |-> 0, pushes |-> 0,
          pops |-> 0, panic |-> TRUE]
    ELSE LET scope == JumpScope(s, OperandDest(ex), OperandAdvance(ex), dests)
         IN  [outcomes |->
                  scope.outcomes \o AdvanceBranch(scope.solver, OperandAdvance(ex)),
              solver |-> scope.solver,
              queries |-> scope.queries + 1,
              pushes |-> scope.pushes,
              pops |-> scope.pops,
              panic |-> FALSE]

\* The depth test letting a stack of one word through.
outcomes_depth1(ex, s, dests) ==
    IF Len(ex.stack) < 1
    THEN [outcomes |-> <<Halt("StackUnderflow")>>, solver |-> s,
          queries |-> 0, pushes |-> 0, pops |-> 0, panic |-> FALSE]
    ELSE IF CheckAssumptions(s, <<covers_cost(ex)>>) = "Sat"
         THEN LET c == CoveredBranch(ex, s, dests)
              IN  [c EXCEPT !.outcomes = OutOfGasBranch(ex, s) \o @,
                            !.queries = @ + 2]
         ELSE [outcomes |-> OutOfGasBranch(ex, s), solver |-> s,
               queries |-> 2, pushes |-> 0, pops |-> 0, panic |-> FALSE]

\* The stack depth tested after the out-of-gas query.
outcomes_gasFirst(ex, s, dests) ==
    IF Len(ex.stack) < 2
    THEN [outcomes |-> OutOfGasBranch(ex, s) \o <<Halt("StackUnderflow")>>,
          solver |-> s, queries |-> 1, pushes |-> 0, pops |-> 0,
          panic |-> FALSE]
    ELSE IF CheckAssumptions(s, <<covers_cost(ex)>>) = "Sat"
         THEN LET c == CoveredBranch(ex, s, dests)
              IN  [c EXCEPT !.outcomes = OutOfGasBranch(ex, s) \o @,
                            !.queries = @ + 2]
         ELSE [outcomes |-> OutOfGasBranch(ex, s), solver |-> s,
               queries |-> 2, pushes |-> 0, pops |-> 0, panic |-> FALSE]

\* fn outcomes(&self, evm: &ZEvm) -> SmallVec<[Outcome; 2]>: the sequence
\* returned, the solver as the call leaves it, and what the call asked of it.
outcomes(ex, s, dests) ==
    IF Len(ex.stack) < 2
    THEN [outcomes |-> <<Halt("StackUnderflow")>>, solver |-> s,
          queries |-> 0, pushes |-> 0, pops |-> 0, panic |-> FALSE]
    ELSE IF CheckAssumptions(s, <<covers_cost(ex)>>) = "Sat"
         THEN LET c == CoveredBranch(ex, s, dests)
              IN  [c EXCEPT !.outcomes = OutOfGasBranch(ex, s) \o @,
                            !.queries = @ + 2]
         ELSE [outcomes |-> OutOfGasBranch(ex, s), solver |-> s,
               queries |-> 2, pushes |-> 0, pops |-> 0, panic |-> FALSE]

(***************************************************************************)
(* JumpI::execute                                                          *)
(***************************************************************************)
\* let dest = execution.stack.pop().unwrap();
PoppedDest(stack) == StackPeek(stack, 0)

\* The second operand peeked where the first was, its pop forgotten.
PoppedCmp_peek(stack) == StackPeek(stack, 0)

\* let cmp = execution.stack.pop().unwrap();
PoppedCmp(stack) == StackPeek(StackPop(stack), 0)

\* The jump committed without the assertion of its destination.
ExecuteAsserts_noDest(run, dest, will_advance) ==
    IF run.what = "Jump" THEN <<Not(will_advance)>> ELSE <<will_advance>>

\* The commit asserting also that the gas covers the cost.
ExecuteAsserts_gas(run, dest, will_advance) ==
    IF run.what = "Jump"
    THEN <<Not(will_advance), WordEq(dest, run.offset), GasGe(GasFresh, GasCost)>>
    ELSE <<will_advance, GasGe(GasFresh, GasCost)>>

\* match run { Run::Jump(offset) => ..., Run::Advance => ... }
ExecuteAsserts(run, dest, will_advance) ==
    IF run.what = "Jump"
    THEN <<Not(will_advance), WordEq(dest, run.offset)>>
    ELSE <<will_advance>>

\* The commit with the second pop forgotten.
execute_onePop(run, ex, s) ==
    IF PeekFails(ex.stack, 1)
    THEN [execution |-> ex, solver |-> s, panic |-> TRUE]
    ELSE LET dest == PoppedDest(ex.stack)
             cmp == PoppedCmp(ex.stack)
             will_advance == WordEq(cmp, 0)
         IN  [execution |->
                  [ex EXCEPT !.gas_remaining = [@ EXCEPT !.off = @ - GasCost],
                             !.stack = StackPop(@)],
              solver |->
                  [s EXCEPT !.assertions =
                                @ \o ExecuteAsserts(run, dest, will_advance)],
              panic |-> FALSE]

\* fn execute(&self, context, solver, run, execution) -> Result<(), Error>
execute(run, ex, s) ==
    IF PeekFails(ex.stack, 1)
    THEN [execution |-> ex, solver |-> s, panic |-> TRUE]
    ELSE LET dest == PoppedDest(ex.stack)
             cmp == PoppedCmp(ex.stack)
             will_advance == WordEq(cmp, 0)
         IN  [execution |->
                  [ex EXCEPT !.gas_remaining = [@ EXCEPT !.off = @ - GasCost],
                             !.stack = StackPop(StackPop(@))],
              solver |->
                  [s EXCEPT !.assertions =
                                @ \o ExecuteAsserts(run, dest, will_advance)],
              panic |-> FALSE]

(***************************************************************************)
(* The machine: the harness builds the engine and pushes the operands, the *)
(* driver enumerates the outcomes (step) and commits one of them (apply).  *)
(***************************************************************************)
condition == Fresh("condition")

destination == Fresh("destination")

\* The programs of the tests; the one of asserts_when_jump has a second
\* conditional jump in the place of its STOP, so that a path can commit two.
Programs ==
    {<<"JumpI">>,
     <<"JumpI", "JumpDest", "JumpDest">>,
     <<"JumpI", "JumpI", "JumpDest">>}

\* The words the tests push: constants and fresh symbolic constants.
PushWords == {Const(0), Const(1), Const(NoJumpDest), condition, destination}

\* Path constraints a path with a symbolic gas counter may hold when it reaches
\* the instruction.
PathConstraints ==
    {<<>>,
     <<WordEq(condition, 0)>>,
     <<Not(WordEq(condition, 0))>>,
     <<WordEq(destination, 2)>>,
     <<Or(<<WordEq(condition, 0), WordEq(destination, 1)>>)>>,
     <<Or(<<Not(GasGe(GasFresh, GasCost)), WordEq(condition, 0)>>)>>}

\* The gas counter and the path constraints of a built engine: Builder::set_gas(9),
\* set_gas(10), and no set_gas (a symbolic gas counter).
Paths ==
    {[gas |-> GasConst(GasCost - 1), assertions |-> <<>>],
     [gas |-> GasConst(GasCost), assertions |-> <<>>]}
    \cup {[gas |-> GasFresh, assertions |-> pcs] : pcs \in PathConstraints}

\* What the harness remembers of the last commit: the run, the two words that
\* were on top of the stack (the tests keep a clone of the word they pushed) and
\* the pc of the instruction.
NoCommit ==
    [run |-> Halt("None"), top |-> NoWord, below |-> NoWord, pc |-> 0]

NoStats == [queries |-> 0, pushes |-> 0, pops |-> 0]

\* A built engine: the execution at pc 0 with an empty stack and the path's
\* constraints asserted; no call has failed.
Built ==
    /\ program \in Programs
    /\ \E p \in Paths :
           /\ execution = [pc |-> 0, gas_remaining |-> p.gas, stack |-> <<>>,
                           halted |-> FALSE]
           /\ solver = [assertions |-> p.assertions, scopes |-> <<>>]
    /\ phase = "evm"
    /\ offered = <<>>
    /\ stats = NoStats
    /\ last = NoCommit
    /\ steps = 0
    /\ error = "none"

Init == Built /\ inconclusive = {}

\* evm.executions[0].stack.push(word).unwrap()
Push ==
    /\ phase = "evm"
    /\ steps = 0
    /\ Len(execution.stack) < MaxStack
    /\ \E w \in PushWords :
           execution' = [execution EXCEPT !.stack = StackPush(@, w)]
    /\ UNCHANGED <<program, solver, phase, offered, stats, last, steps,
                   error, inconclusive>>

\* The opcode at the execution's pc.
CurrentOp ==
    IF execution.pc < Len(program) THEN program[execution.pc + 1] ELSE "Stop"

\* What a call of `outcomes` leaves in the engine: the sequence offered, the
\* solver, the count of the solver calls, and the panic of an unwrap.
Enumerate(next_phase) ==
    \E r \in {outcomes(execution, solver, Destinations(program))} :
        /\ offered' = r.outcomes
        /\ solver' = r.solver
        /\ stats' = [queries |-> r.queries, pushes |-> r.pushes, pops |-> r.pops]
        /\ error' = IF r.panic THEN "Panic" ELSE "none"
        /\ phase' = IF r.panic THEN "failed" ELSE next_phase

\* evm.step(): the outcomes of the opcode at pc.
Step ==
    /\ phase = "evm"
    /\ CurrentOp = "JumpI"
    /\ Enumerate("step")
    /\ UNCHANGED <<program, execution, last, steps, inconclusive>>

\* evm.step() called a second time before anything is committed; the harness
\* compares the two results and ends there.
StepAgain ==
    /\ phase = "step"
    /\ Enumerate("again")
    /\ UNCHANGED <<program, execution, last, steps, inconclusive>>

\* The pc a committed run leaves.
NextPc(run, pc) == IF run.what = "Jump" THEN run.offset ELSE pc + 1

\* The outcomes a caller may hand to apply.
Candidates(prog) ==
    {Advance} \cup {Jump(o) : o \in 0..(Len(prog) - 1)}
    \cup {Halt(h) : h \in {"StackUnderflow", "OutOfGas", "InvalidJumpDest"}}

\* Membership by the variant alone, the offset of a jump not compared.
Offered_kindOnly(outcome, outs) ==
    \E i \in 1..Len(outs) : outs[i].what = outcome.what

\* The outcome is among the last result of `outcomes`.
Offered(outcome, outs) == \E i \in 1..Len(outs) : outs[i] = outcome

\* apply(outcome): the usage failures, the commit of a halt, and the commit of
\* a run through the opcode's `execute`.
apply(outcome, ex, s, outs) ==
    IF ex.halted
    THEN [execution |-> ex, solver |-> s, error |-> "AlreadyHalted"]
    ELSE IF ~Offered(outcome, outs)
    THEN [execution |-> ex, solver |-> s, error |-> "AppliedOutcomeNotOffered"]
    ELSE IF outcome.kind = "Halt"
    THEN [execution |-> [ex EXCEPT !.halted = TRUE], solver |-> s,
          error |-> "none"]
    ELSE LET r == execute(outcome, ex, s)
         IN  IF r.panic
             THEN [execution |-> ex, solver |-> s, error |-> "Panic"]
             ELSE [execution |->
                       [r.execution EXCEPT !.pc = NextPc(outcome, ex.pc)],
                   solver |-> r.solver,
                   error |-> "none"]

\* step.apply(outcome): commits an outcome that was offered, or fails; the
\* harness ends at a failure.
Apply ==
    /\ phase \in {"step", "halted"}
    /\ steps < MaxSteps
    /\ \E outcome \in Candidates(program) :
           \E r \in {apply(outcome, execution, solver, offered)} :
               LET committed == r.error = "none"
                   ran == committed /\ outcome.kind = "Run"
               IN  /\ execution' = r.execution
                   /\ solver' = r.solver
                   /\ error' = r.error
                   /\ phase' = IF ~committed THEN "failed"
                               ELSE IF ran THEN "evm" ELSE "halted"
                   /\ offered' = IF committed THEN <<>> ELSE offered
                   /\ steps' = IF ran THEN steps + 1 ELSE steps
                   /\ last' =
                          IF ran
                          THEN [run |-> outcome,
                                top |-> execution.stack[Len(execution.stack)],
                                below |-> execution.stack[Len(execution.stack) - 1],
                                pc |-> execution.pc]
                          ELSE last
    /\ UNCHANGED <<program, stats, inconclusive>>

Next == Push \/ Step \/ StepAgain \/ Apply

Spec == Init /\ [][Next]_vars

\* An engine built on the program with two conditional jumps, the operands of
\* both and a word below them already on the stack: the driver enumerates and
\* commits from there.
SeqStacks == [1..(MaxStack + 1) -> PushWords \ {Const(NoJumpDest)}]

InitSeq ==
    /\ program = <<"JumpI", "JumpI", "JumpDest">>
    /\ \E p \in Paths : \E st \in SeqStacks :
           /\ execution = [pc |-> 0, gas_remaining |-> p.gas, stack |-> st,
                           halted |-> FALSE]
           /\ solver = [assertions |-> p.assertions, scopes |-> <<>>]
    /\ phase = "evm"
    /\ offered = <<>>
    /\ stats = NoStats
    /\ last = NoCommit
    /\ steps = 0
    /\ error = "none"
    /\ inconclusive = {}

NextSeq == Step \/ Apply

SpecSeq == InitSeq /\ [][NextSeq]_vars

\* A built engine whose solver may give up on the queries over the gas counter
\* or on the queries over the symbolic words.
InitUnknown == Built /\ inconclusive \in {{}, {"ge"}, {"eq"}}

SpecUnknown == InitUnknown /\ [][Next]_vars

(***************************************************************************)
(* Vocabulary of the properties.                                           *)
(***************************************************************************)
Stepped == phase = "step"

Depth == Len(execution.stack)

\* The word on top of the stack and the word below it.
TopWord == execution.stack[Depth]

BelowWord == execution.stack[Depth - 1]

Offers(o) == \E i \in 1..Len(offered) : offered[i] = o

\* The valid jump destinations of the program.
Table == {i - 1 : i \in {j \in 1..Len(program) : program[j] = "JumpDest"}}

\* The assignments that satisfy the path's constraints.
PathModels ==
    {m \in Models : \A i \in 1..Len(solver.assertions) : Holds(solver.assertions[i], m)}

\* Some assignment of the path has enough gas for the instruction.
CanCover == \E m \in PathModels : EvalGas(execution.gas_remaining, m) >= GasCost

\* The place of an outcome in the order [OutOfGas, InvalidJumpDest, Jump.., Advance].
Rank(o) ==
    CASE o.what = "OutOfGas" -> 0
      [] o.what = "InvalidJumpDest" -> 1
      [] o.what = "Jump" -> 2
      [] o.what = "Advance" -> 3
      [] OTHER -> 4

(***************************************************************************)
(* C1: the sequence outcomes returns is ordered [OutOfGas?,                *)
(* InvalidJumpDest?, Jump(o1), Jump(o2), ..., Advance?]: OutOfGas first,   *)
(* InvalidJumpDest before every Jump, Advance last.                        *)
(***************************************************************************)
C1_InvalidJumpDestBeforeJumps ==
    Stepped /\ Depth >= 2 =>
        \A i \in 1..Len(offered) : \A j \in 1..Len(offered) :
            i < j => Rank(offered[i]) <= Rank(offered[j])

(***************************************************************************)
(* C2 as stated: the word tested against zero is the top of the stack and  *)
(* the word compared with the jump destinations is the one below it, so    *)
(* Advance is offered exactly when the top word can be zero and a Jump(o)  *)
(* only when the word below can be o.                                      *)
(***************************************************************************)
C2_ConditionOnTop ==
    LET pm == PathModels
    IN
        Stepped /\ Depth >= 2 /\ CanCover =>
            /\ Offers(Advance) <=> \E m \in pm : EvalWord(TopWord, m) = 0
            /\ \A o \in Table :
                   Offers(Jump(o)) => \E m \in pm : EvalWord(BelowWord, m) = o

(***************************************************************************)
(* C2 amended: the destination is the top of the stack and the condition   *)
(* is the word below it, in outcomes (peek) and in execute (pop): Advance  *)
(* is offered exactly when the word below the top can be zero, a Jump(o)   *)
(* only when the top word can be o, and a commit asserts its constraint on *)
(* the word below the top (condition) and on the top word (destination).   *)
(***************************************************************************)
C2_DestinationOnTop ==
    LET pm == PathModels
    IN
        /\ Stepped /\ Depth >= 2 /\ CanCover =>
               /\ Offers(Advance) <=> \E m \in pm : EvalWord(BelowWord, m) = 0
               /\ \A o \in Table :
                      Offers(Jump(o)) => \E m \in pm : EvalWord(TopWord, m) = o
        /\ last.run = Advance =>
               \A m \in pm : EvalWord(last.below, m) = 0
        /\ last.run.what = "Jump" =>
               \A m \in pm :
                   /\ EvalWord(last.below, m) # 0
                   /\ EvalWord(last.top, m) = last.run.offset

\* Scenario C: the condition 0 pushed first, the destination 29 on top of it.
C2_Witness ==
    /\ Stepped
    /\ execution.stack = <<Const(0), Const(NoJumpDest)>>
    /\ execution.gas_remaining = GasConst(GasCost)
    /\ offered = <<Advance>>

(***************************************************************************)
(* C3: with a stack of depth 0 or 1, outcomes returns exactly              *)
(* [Halt(StackUnderflow)], whatever the gas and the path constraints, and  *)
(* makes no solver query and opens no solver scope.                        *)
(***************************************************************************)
C3_Underflow ==
    Stepped /\ Depth < 2 =>
        /\ offered = <<Halt("StackUnderflow")>>
        /\ stats.queries = 0
        /\ stats.pushes = 0

\* One word on the stack, not enough gas, a path constraint in place.
C3_Witness ==
    /\ Stepped
    /\ Depth = 1
    /\ solver.assertions # <<>>
    /\ \E m \in PathModels : EvalGas(execution.gas_remaining, m) < GasCost
    /\ offered = <<Halt("StackUnderflow")>>

(***************************************************************************)
(* C4: with a stack of depth >= 2, OutOfGas is offered exactly when        *)
(* gas_remaining < 10 is satisfiable under the path constraints, and a     *)
(* Jump, InvalidJumpDest or Advance only when gas_remaining >= 10 is       *)
(* satisfiable; with gas fixed at 9 the result is exactly [OutOfGas], with *)
(* gas fixed at 10 OutOfGas is not offered.                                *)
(***************************************************************************)
C4_OutOfGas ==
    LET pm == PathModels
    IN
        Stepped /\ Depth >= 2 =>
            /\ Offers(Halt("OutOfGas")) <=>
                   \E m \in pm : EvalGas(execution.gas_remaining, m) < GasCost
            /\ (\E i \in 1..Len(offered) : offered[i] # Halt("OutOfGas")) => CanCover
            /\ execution.gas_remaining = GasConst(GasCost - 1) =>
                   offered = <<Halt("OutOfGas")>>
            /\ execution.gas_remaining = GasConst(GasCost) =>
                   ~Offers(Halt("OutOfGas"))

\* A symbolic gas counter: OutOfGas is offered together with a run.
C4_Witness ==
    /\ Stepped
    /\ Depth >= 2
    /\ execution.gas_remaining = GasFresh
    /\ Offers(Halt("OutOfGas"))
    /\ Offers(Advance)

(***************************************************************************)
(* C5: with a stack of depth >= 2 and the gas cost coverable, Jump(o) is   *)
(* offered exactly when o is a valid jump destination and condition # 0    *)
(* with destination = o is satisfiable under the path constraints; each    *)
(* such o once, in ascending order, and no offset outside the table.       *)
(***************************************************************************)
C5_Jumps ==
    LET pm == PathModels
    IN
        Stepped /\ Depth >= 2 /\ CanCover =>
            /\ \A o \in Table :
                   Offers(Jump(o)) <=>
                       \E m \in pm :
                           /\ EvalWord(BelowWord, m) # 0
                           /\ EvalWord(TopWord, m) = o
            /\ \A i \in 1..Len(offered) :
                   offered[i].what = "Jump" => offered[i].offset \in Table
            /\ \A i \in 1..Len(offered) : \A j \in 1..Len(offered) :
                   i < j /\ offered[i].what = "Jump" /\ offered[j].what = "Jump" =>
                       offered[i].offset < offered[j].offset

\* A symbolic destination that can be either of two valid offsets.
C5_Witness ==
    /\ Stepped
    /\ Depth >= 2
    /\ TopWord = destination
    /\ BelowWord = condition
    /\ Offers(Jump(1))
    /\ Offers(Jump(2))

(***************************************************************************)
(* C6: with a stack of depth >= 2 and the gas cost coverable,              *)
(* InvalidJumpDest is offered exactly when some assignment of the path has *)
(* condition # 0 and a destination that is none of the valid offsets (all  *)
(* of them, also with an empty table); gas 10, condition 1, destination 29 *)
(* and no JUMPDEST at 29 gives exactly [InvalidJumpDest].                  *)
(***************************************************************************)
C6_InvalidJumpDest ==
    LET pm == PathModels
    IN
        Stepped /\ Depth >= 2 /\ CanCover =>
            /\ Offers(Halt("InvalidJumpDest")) <=>
                   \E m \in pm :
                       /\ EvalWord(BelowWord, m) # 0
                       /\ EvalWord(TopWord, m) \notin Table
            /\ ( /\ execution.gas_remaining = GasConst(GasCost)
                 /\ BelowWord = Const(1)
                 /\ TopWord = Const(NoJumpDest)
                 /\ NoJumpDest \notin Table ) =>
                   offered = <<Halt("InvalidJumpDest")>>

\* Scenario D, on the program without a JUMPDEST.
C6_Witness ==
    /\ Stepped
    /\ program = <<"JumpI">>
    /\ execution.stack = <<Const(1), Const(NoJumpDest)>>
    /\ execution.gas_remaining = GasConst(GasCost)
    /\ offered = <<Halt("InvalidJumpDest")>>

(***************************************************************************)
(* C7: with a stack of depth >= 2 and the gas cost coverable, Advance is   *)
(* offered exactly when condition = 0 is satisfiable under the constraints *)
(* the path held when outcomes was entered (the jump assumption is gone    *)
(* when the test is made); gas 10, condition 0 and destination 29 give     *)
(* exactly [Advance].                                                      *)
(***************************************************************************)
C7_Advance ==
    [][ (phase = "evm" /\ phase' = "step" /\ Depth >= 2 /\ CanCover) =>
            /\ Offers(Advance)' <=> \E m \in PathModels : EvalWord(BelowWord, m) = 0
            /\ ( /\ execution.gas_remaining = GasConst(GasCost)
                 /\ BelowWord = Const(0)
                 /\ TopWord = Const(NoJumpDest) ) =>
                   offered' = <<Advance>> ]_vars

\* A symbolic condition: a jump is offered under the jump assumption, and the
\* fall-through after it.
C7_Witness ==
    /\ Stepped
    /\ Depth >= 2
    /\ BelowWord = condition
    /\ Offers(Jump(2))
    /\ Offers(Advance)

(***************************************************************************)
(* C8: after the commit of an offered Jump(o), the path's constraints      *)
(* entail condition # 0 and destination = o: condition = 0 is              *)
(* unsatisfiable, condition # 0 is satisfiable, destination # o is         *)
(* unsatisfiable, and the pc is o.                                         *)
(***************************************************************************)
C8_JumpCommitted ==
    LET pm == PathModels
    IN
        last.run.what = "Jump" =>
            /\ ~ \E m \in pm : EvalWord(last.below, m) = 0
            /\ \E m \in pm : EvalWord(last.below, m) # 0
            /\ ~ \E m \in pm : EvalWord(last.top, m) # last.run.offset
            /\ execution.pc = last.run.offset

\* Scenario F: Jump(2) committed on a fresh condition and destination.
C8_Witness ==
    /\ last.run = Jump(2)
    /\ last.below = condition
    /\ last.top = destination
    /\ solver.assertions = <<Not(WordEq(condition, 0)), WordEq(destination, 2)>>
    /\ execution.pc = 2

(***************************************************************************)
(* C9: after the commit of an offered Advance, the path's constraints      *)
(* entail condition = 0: condition = 0 is satisfiable, condition # 0 is    *)
(* unsatisfiable, the commit constrains nothing else (the assignments of   *)
(* the path are those it had with condition = 0, whatever the              *)
(* destination), and the pc is that of the next instruction, pc + 1.       *)
(***************************************************************************)
C9_AdvanceCommitted ==
    [][ (phase = "step" /\ phase' = "evm" /\ last'.run = Advance) =>
            /\ PathModels' = {m \in PathModels : EvalWord(BelowWord, m) = 0}
            /\ PathModels' # {}
            /\ execution'.pc = execution.pc + 1 ]_vars

\* Scenario G: Advance committed on a fresh condition and destination.
C9_Witness ==
    /\ last.run = Advance
    /\ last.below = condition
    /\ last.top = destination
    /\ solver.assertions = <<WordEq(condition, 0)>>
    /\ execution.pc = 1

(***************************************************************************)
(* C10: coverage. With a stack of depth >= 2, every assignment that        *)
(* satisfies the path constraints satisfies the feasibility predicate of   *)
(* an outcome that is offered: gas < 10 for OutOfGas, condition = 0 for    *)
(* Advance, condition # 0 and destination = o for Jump(o), condition # 0   *)
(* and no valid destination for InvalidJumpDest. The result is not empty   *)
(* when the path constraints are satisfiable.                              *)
(***************************************************************************)
C10_Coverage ==
    LET pm == PathModels
    IN
        Stepped /\ Depth >= 2 =>
            /\ \A m \in pm :
                   \/ /\ EvalGas(execution.gas_remaining, m) < GasCost
                      /\ Offers(Halt("OutOfGas"))
                   \/ /\ EvalWord(BelowWord, m) = 0
                      /\ Offers(Advance)
                   \/ /\ EvalWord(BelowWord, m) # 0
                      /\ EvalWord(TopWord, m) \in Table
                      /\ Offers(Jump(EvalWord(TopWord, m)))
                   \/ /\ EvalWord(BelowWord, m) # 0
                      /\ EvalWord(TopWord, m) \notin Table
                      /\ Offers(Halt("InvalidJumpDest"))
            /\ pm # {} => offered # <<>>

\* A path on which every kind of outcome covers some assignment.
C10_Witness ==
    /\ Stepped
    /\ Depth >= 2
    /\ Len(offered) = 5
    /\ \E m \in PathModels : EvalGas(execution.gas_remaining, m) < GasCost
    /\ \E m \in PathModels :
           /\ EvalGas(execution.gas_remaining, m) >= GasCost
           /\ EvalWord(BelowWord, m) # 0
           /\ EvalWord(TopWord, m) \notin Table

\* A call of `outcomes` through the driver: the step from one phase to the
\* next that step() makes.
Enumerated ==
    \/ phase = "evm" /\ phase' \in {"step", "failed"}
    \/ phase = "step" /\ phase' = "again"

\* C11: two consecutive calls of `outcomes` on the same unmodified state return
\* the same sequence in the same order: nothing the first call leaves behind
\* changes what the second returns.
C11_Deterministic ==
    [][(phase = "step" /\ phase' = "again") => offered' = offered]_vars

\* A second call that returned the out-of-gas halt, the invalid-destination
\* halt and the fall-through.
C11_Witness ==
    /\ phase = "again"
    /\ offered = <<Halt("OutOfGas"), Halt("InvalidJumpDest"), Advance>>

\* C12: `outcomes` is speculative: on every exit path the solver (its scope
\* depth and its permanent assertions) is on return what it was on entry,
\* every push is matched by one pop, and the stack, the pc and the gas counter
\* of the execution are unchanged.
C12_Speculative ==
    [][Enumerated =>
           /\ solver' = solver
           /\ execution' = execution
           /\ stats'.pushes = stats'.pops]_vars

\* A call that opened the jump scope under a path constraint, found the jump
\* infeasible and returned.
C12_Witness ==
    /\ Stepped
    /\ stats.pushes = 1
    /\ stats.queries = 4
    /\ solver.assertions # <<>>
    /\ offered = <<Halt("OutOfGas"), Advance>>

\* One of the queries `outcomes` makes on this state answers Unknown: the two
\* gas queries, the check of the jump assumption, the fall-through query.
UnknownAnswered ==
    /\ Depth >= 2
    /\ \/ CheckAssumptions(solver, <<Not(covers_cost(execution))>>) = "Unknown"
       \/ CheckAssumptions(solver, <<covers_cost(execution)>>) = "Unknown"
       \/ /\ CheckAssumptions(solver, <<covers_cost(execution)>>) = "Sat"
          /\ \/ Check(SolverAssert(SolverPush(solver),
                                   Not(OperandAdvance(execution)))) = "Unknown"
             \/ CheckAssumptions(solver, <<OperandAdvance(execution)>>) = "Unknown"

\* C13: when a query of `outcomes` answers Unknown the enumeration is aborted
\* and a failure is surfaced: the call never returns a list of outcomes as if
\* the query had been unsatisfiable.
C13_UnknownSurfaced == UnknownAnswered => ~Stepped

\* C14: committing an outcome that is not in the last result of `outcomes`
\* fails with AppliedOutcomeNotOffered and leaves the stack, the pc, the gas
\* counter and the permanent assertions unchanged; committing on a halted
\* execution fails with AlreadyHalted.
C14_UsageFailures ==
    [][/\ Stepped =>
              \A c \in Candidates(program) :
                  ~Offers(c) =>
                      apply(c, execution, solver, offered) =
                          [execution |-> execution, solver |-> solver,
                           error |-> "AppliedOutcomeNotOffered"]
       /\ (Stepped /\ phase' = "evm") => Offers(last'.run)
       /\ (Stepped /\ phase' = "halted") =>
              \E i \in 1..Len(offered) : offered[i].kind = "Halt"
       /\ (Stepped /\ phase' = "failed") =>
              /\ error' = "AppliedOutcomeNotOffered"
              /\ UNCHANGED <<execution, solver>>
       /\ phase = "halted" =>
              /\ error' = "AlreadyHalted"
              /\ phase' = "failed"
              /\ UNCHANGED <<execution, solver>>]_vars

\* A jump to offset 1 refused where only the jump to offset 2 and the
\* fall-through were offered.
C14_Witness ==
    /\ phase = "failed"
    /\ error = "AppliedOutcomeNotOffered"
    /\ Offers(Jump(2))
    /\ Offers(Advance)
    /\ ~Offers(Jump(1))

\* A run is committed by this step.
Committed == Stepped /\ phase' = "evm"

\* C15: `execute` has the same effect on the machine state for a jump and for
\* the fall-through: it removes exactly the two top elements of the stack and
\* leaves the elements below unchanged, it lowers the gas counter by 10
\* exactly once, and it changes no other field of the execution.
C15_ExecuteFrame ==
    [][Committed =>
           LET r == execute(last'.run, execution, solver)
           IN  /\ execution'.stack = SubSeq(execution.stack, 1, Depth - 2)
               /\ execution'.gas_remaining.sym = execution.gas_remaining.sym
               /\ \A m \in Models :
                      EvalGas(execution'.gas_remaining, m) =
                          EvalGas(execution.gas_remaining, m) - GasCost
               /\ r.execution =
                      [execution EXCEPT !.stack = execution'.stack,
                                        !.gas_remaining = execution'.gas_remaining]
               /\ execution' = [r.execution EXCEPT !.pc = execution'.pc]]_vars

\* A fall-through committed on a stack of three words: the word at the bottom
\* is what is left, and the gas counter went from 10 to 0.
C15_Witness ==
    /\ phase = "evm"
    /\ steps = 1
    /\ last.run = Advance
    /\ execution.stack = <<Const(1)>>
    /\ execution.gas_remaining = GasConst(0)

\* C16: `execute` asserts exactly the constraint of the chosen branch: for
\* Jump(o) the two assertions condition != 0 and destination == o, for the
\* fall-through the one assertion condition == 0; it adds no constraint on the
\* gas, asks the solver nothing and opens or closes no scope.
C16_ExecuteAsserts ==
    [][Committed =>
           /\ solver'.assertions =
                  solver.assertions \o
                      (IF last'.run.what = "Jump"
                       THEN <<Not(WordEq(BelowWord, 0)),
                              WordEq(TopWord, last'.run.offset)>>
                       ELSE <<WordEq(BelowWord, 0)>>)
           /\ solver'.scopes = solver.scopes
           /\ stats' = stats]_vars

\* A jump to offset 2 committed on a path that held a constraint: the path
\* holds that constraint and the two assertions of the jump.
C16_Witness ==
    /\ phase = "evm"
    /\ steps = 1
    /\ last.run = Jump(2)
    /\ Len(solver.assertions) = 3
    /\ solver.assertions[2] = Not(WordEq(condition, 0))
    /\ solver.assertions[3] = WordEq(destination, 2)

\* The assignments of the path under which the instruction's gas is covered.
CoveredModels ==
    {m \in PathModels : EvalGas(execution.gas_remaining, m) >= GasCost}

\* C17: no spurious outcome: for every jump, fall-through and
\* invalid-destination halt returned, one assignment satisfies the path's
\* constraints, covers the gas cost and takes that branch, also when the
\* path's constraints relate the gas to the condition.
C17_NoSpuriousOutcomes ==
    (Stepped /\ Depth >= 2) =>
        LET cm == CoveredModels
        IN  \A i \in 1..Len(offered) :
                LET o == offered[i]
                IN  /\ o.what = "Jump" =>
                           \E m \in cm : /\ EvalWord(BelowWord, m) # 0
                                         /\ EvalWord(TopWord, m) = o.offset
                    /\ o.what = "Advance" =>
                           \E m \in cm : EvalWord(BelowWord, m) = 0
                    /\ o.what = "InvalidJumpDest" =>
                           \E m \in cm : /\ EvalWord(BelowWord, m) # 0
                                         /\ EvalWord(TopWord, m) \notin Table

\* C18: enumerate-then-commit preserves the feasibility of the path: when the
\* permanent constraints are satisfiable and a run that `outcomes` returned is
\* committed, they are still satisfiable afterwards, and so after any sequence
\* of such steps.
C18_FeasibilityPreserved ==
    [][(Committed /\ PathModels # {}) => PathModels' # {}]_vars

\* Two runs committed one after the other, the second a jump, on a path that
\* is still satisfiable.
C18_Witness ==
    /\ steps = 2
    /\ last.run = Jump(2)
    /\ Len(solver.assertions) >= 3
    /\ PathModels # {}

\* C19: the unchecked stack accesses never fail: `outcomes` unwraps its two
\* peeks only on a stack of at least two words, and a run is never offered on
\* a shallower stack, so both pops of `execute` succeed for every run returned.
C19_NoFailedUnwrap ==
    /\ error # "Panic"
    /\ Stepped =>
           \A i \in 1..Len(offered) :
               offered[i].kind = "Run" =>
                   /\ Depth >= 2
                   /\ ~execute(offered[i], execution, solver).panic

\* A run committed from a stack of exactly two words: both pops succeeded and
\* the stack is empty.
C19_Witness ==
    /\ phase = "evm"
    /\ steps = 1
    /\ error = "none"
    /\ Depth = 0
    /\ last.run.kind = "Run"

====
